---------------------------- MODULE Spec2Model ----------------------------
(***************************************************************************)
(* Model of RegGuard's OFAC SDN screening tool                             *)
(* (src/src/regguard/tools/ofac.py): the in-memory dataset cache           *)
(* (download_ofac_sdn_data) under concurrent asyncio callers, and the      *)
(* matching / ranking pipeline of check_ofac.                              *)
(*                                                                         *)
(* Strings are sequences of one-character strings over a small alphabet    *)
(* with upper and lower case letters and the space.  Similarity scores of  *)
(* rapidfuzz are floats; they are kept here as exact fractions in lowest   *)
(* terms, [num, den], so that equal scores are equal values.               *)
(***************************************************************************)
EXTENDS Integers, Sequences, FiniteSets, TLC

(***************************************************************************)
(* Bounds of the model.                                                    *)
(***************************************************************************)
MaxEntries == 3
MaxCalls == 3
MaxTicks == 2

(***************************************************************************)
(* Program constants.                                                      *)
(***************************************************************************)
TTL == 86400
MinSize == 1000
HttpOk == 200
TopN == 5
MaxAliasesShown == 3
ExactScore == 100

(***************************************************************************)
(* Strings.                                                                *)
(***************************************************************************)
\* The alphabet is "a", "b", "A", "B" and the space.

\* str.lower() on one character
LowerChar(c) == CASE c = "A" -> "a" [] c = "B" -> "b" [] OTHER -> c

\* str.lower()
Lower(s) == [i \in 1..Len(s) |-> LowerChar(s[i])]

IsSpace(c) == c = " "

\* code point order of the alphabet (space < upper case < lower case)
CharCode(c) == CASE c = " " -> 32 [] c = "A" -> 65 [] c = "B" -> 66
                 [] c = "a" -> 97 [] c = "b" -> 98

RECURSIVE LStrip(_)
LStrip(s) == IF s = << >> THEN << >>
             ELSE IF IsSpace(Head(s)) THEN LStrip(Tail(s)) ELSE s

RECURSIVE RStrip(_)
RStrip(s) == IF s = << >> THEN << >>
             ELSE IF IsSpace(s[Len(s)]) THEN RStrip(SubSeq(s, 1, Len(s) - 1)) ELSE s

\* str.strip()
Strip(s) == RStrip(LStrip(s))

\* str.split(): the maximal runs of non-space characters, in order
RECURSIVE SplitFrom(_, _, _)
SplitFrom(s, cur, acc) ==
    IF s = << >> THEN (IF cur = << >> THEN acc ELSE Append(acc, cur))
    ELSE IF IsSpace(Head(s))
         THEN SplitFrom(Tail(s), << >>, IF cur = << >> THEN acc ELSE Append(acc, cur))
         ELSE SplitFrom(Tail(s), Append(cur, Head(s)), acc)

Split(s) == SplitFrom(s, << >>, << >>)

\* " ".join(words)
RECURSIVE Join(_)
Join(ws) == IF ws = << >> THEN << >>
            ELSE IF Len(ws) = 1 THEN ws[1]
            ELSE ws[1] \o <<" ">> \o Join(Tail(ws))

\* sub in s
Contains(sub, s) ==
    \E i \in 1..(Len(s) + 1) :
        /\ i + Len(sub) - 1 <= Len(s)
        /\ SubSeq(s, i, i + Len(sub) - 1) = sub

\* s < t in Python's string order
RECURSIVE StrLess(_, _)
StrLess(s, t) ==
    IF t = << >> THEN FALSE
    ELSE IF s = << >> THEN TRUE
    ELSE IF Head(s) = Head(t) THEN StrLess(Tail(s), Tail(t))
    ELSE CharCode(Head(s)) < CharCode(Head(t))

\* sorted(words)
RECURSIVE InsertWord(_, _)
InsertWord(w, ws) ==
    IF ws = << >> THEN <<w>>
    ELSE IF StrLess(w, Head(ws)) THEN <<w>> \o ws
    ELSE <<Head(ws)>> \o InsertWord(w, Tail(ws))

RECURSIVE SortWords(_)
SortWords(ws) == IF ws = << >> THEN << >>
                 ELSE InsertWord(ws[Len(ws)], SortWords(SubSeq(ws, 1, Len(ws) - 1)))

(***************************************************************************)
(* Scores: rapidfuzz.fuzz.ratio and token_sort_ratio.                      *)
(***************************************************************************)
Max2(a, b) == IF a >= b THEN a ELSE b

RECURSIVE GCD(_, _)
GCD(a, b) == IF b = 0 THEN a ELSE GCD(b, a % b)

\* the fraction n/d in lowest terms (d > 0)
Frac(n, d) == LET g == GCD(n, d) IN
              IF n = 0 THEN [num |-> 0, den |-> 1] ELSE [num |-> n \div g, den |-> d \div g]

IntScore(n) == [num |-> n, den |-> 1]

ScoreLess(p, q) == p.num * q.den < q.num * p.den
ScoreGeq(p, q) == ~ScoreLess(p, q)
ScoreMax(p, q) == IF ScoreLess(p, q) THEN q ELSE p

\* longest common subsequence, the similarity behind the Indel distance
RECURSIVE LCS(_, _)
LCS(s, t) ==
    IF s = << >> \/ t = << >> THEN 0
    ELSE IF Head(s) = Head(t) THEN 1 + LCS(Tail(s), Tail(t))
    ELSE Max2(LCS(Tail(s), t), LCS(s, Tail(t)))

\* fuzz.ratio(s, t): 100 * (1 - indel(s, t) / (len(s) + len(t)))
Ratio(s, t) ==
    IF Len(s) + Len(t) = 0 THEN IntScore(100)
    ELSE Frac(200 * LCS(s, t), Len(s) + Len(t))

\* fuzz.token_sort_ratio(s, t)
TokenSortRatio(s, t) == Ratio(Join(SortWords(Split(s))), Join(SortWords(Split(t))))

(***************************************************************************)
(* check_ofac: the scan of the entries (lines 155-235).                    *)
(* An entry is [uid, firstName, lastName, akas], akas a sequence of        *)
(* [firstName, lastName].  The fields type, program, addresses and remarks *)
(* are carried through to the report unread by the matching and are left   *)
(* out.                                                                    *)
(***************************************************************************)
None == << >>
Some(x) == <<x>>

\* f"{first_name} {last_name}".strip()
FullNameOf(first, last) == Strip(first \o <<" ">> \o last)

RECURSIVE AkaNames(_)
AkaNames(akas) ==
    IF akas = << >> THEN << >>
    ELSE LET aka_name == FullNameOf(Head(akas).firstName, Head(akas).lastName) IN
         (IF aka_name # << >> THEN <<aka_name>> ELSE << >>) \o AkaNames(Tail(akas))

\* all_names: the primary name, then the non-empty aliases in source order
AllNames(entry) == <<FullNameOf(entry.firstName, entry.lastName)>> \o AkaNames(entry.akas)

\* max(word_scores) if word_scores else 0
RECURSIVE BestWordScore(_, _)
BestWordScore(search_lower, name_words) ==
    IF name_words = << >> THEN IntScore(0)
    ELSE ScoreMax(Ratio(search_lower, Head(name_words)),
                  BestWordScore(search_lower, Tail(name_words)))

\* score = max(full_score, best_word_score)
NameScore(search_lower, check_name) ==
    ScoreMax(TokenSortRatio(search_lower, Lower(check_name)),
             BestWordScore(search_lower, Split(Lower(check_name))))

\* a test with the comparison against the threshold turned round
FuzzyAcceptsAtMost(score, threshold, match_score) ==
    /\ ScoreGeq(IntScore(threshold), score)
    /\ ScoreLess(match_score, score)

\* the test that lets a name replace the best one so far (line 201)
FuzzyAccepts(score, threshold, match_score) ==
    /\ ScoreGeq(score, IntScore(threshold))
    /\ ScoreLess(match_score, score)

\* the fuzzy loop over all_names (lines 189-204), from the state st
RECURSIVE FuzzyScan(_, _, _, _)
FuzzyScan(names, search_lower, threshold, st) ==
    IF names = << >> THEN st
    ELSE LET score == NameScore(search_lower, Head(names)) IN
         FuzzyScan(Tail(names), search_lower, threshold,
                   IF FuzzyAccepts(score, threshold, st.match_score)
                   THEN [is_match |-> TRUE, match_score |-> score,
                         matched_name |-> Head(names)]
                   ELSE st)

\* an exact test that lower-cases the query only
ExactAcceptsCaseSensitive(search_lower, check_name) == Contains(search_lower, check_name)

\* the test of one name in exact mode (line 208)
ExactAccepts(search_lower, check_name) == Contains(search_lower, Lower(check_name))

\* the exact loop over all_names (lines 207-212), with its break
RECURSIVE ExactScan(_, _, _)
ExactScan(names, search_lower, st) ==
    IF names = << >> THEN st
    ELSE IF ExactAccepts(search_lower, Head(names))
         THEN [is_match |-> TRUE, match_score |-> IntScore(ExactScore),
               matched_name |-> Head(names)]
         ELSE ExactScan(Tail(names), search_lower, st)

\* lines 177-212 for one entry
MatchEntry(entry, search_lower, fuzzy, threshold) ==
    LET all_names == AllNames(entry)
        st0 == [is_match |-> FALSE, match_score |-> IntScore(0),
                matched_name |-> all_names[1]]
    IN IF fuzzy THEN FuzzyScan(all_names, search_lower, threshold, st0)
       ELSE ExactScan(all_names, search_lower, st0)

FirstN(s, n) == SubSeq(s, 1, IF Len(s) < n THEN Len(s) ELSE n)

\* the dictionary appended to matches (lines 225-235)
MatchRecord(entry, st) ==
    LET all_names == AllNames(entry) IN
    [name |-> all_names[1],
     matched_name |-> IF st.matched_name # all_names[1] THEN Some(st.matched_name) ELSE None,
     match_score |-> st.match_score,
     aliases |-> FirstN(Tail(all_names), MaxAliasesShown),
     uid |-> entry.uid]

\* the loop over the entries (lines 158-235)
RECURSIVE ScanEntries(_, _, _, _)
ScanEntries(entries, search_lower, fuzzy, threshold) ==
    IF entries = << >> THEN << >>
    ELSE LET st == MatchEntry(Head(entries), search_lower, fuzzy, threshold) IN
         (IF st.is_match THEN <<MatchRecord(Head(entries), st)>> ELSE << >>)
         \o ScanEntries(Tail(entries), search_lower, fuzzy, threshold)

\* an ascending sort followed by a reversal: equal keys come out in reverse order
RECURSIVE InsertMatchReversed(_, _)
InsertMatchReversed(m, sorted) ==
    IF sorted = << >> THEN <<m>>
    ELSE IF ~ScoreLess(m.match_score, Head(sorted).match_score) THEN <<m>> \o sorted
    ELSE <<Head(sorted)>> \o InsertMatchReversed(m, Tail(sorted))

\* where list.sort(key=match_score, reverse=True) puts one more element:
\* after every element whose key is not smaller (the sort is stable)
RECURSIVE InsertMatch(_, _)
InsertMatch(m, sorted) ==
    IF sorted = << >> THEN <<m>>
    ELSE IF ScoreLess(Head(sorted).match_score, m.match_score) THEN <<m>> \o sorted
    ELSE <<Head(sorted)>> \o InsertMatch(m, Tail(sorted))

\* matches.sort(key=lambda x: x['match_score'], reverse=True) (line 238)
RECURSIVE SortMatches(_)
SortMatches(ms) ==
    IF ms = << >> THEN << >>
    ELSE InsertMatch(ms[Len(ms)], SortMatches(SubSeq(ms, 1, Len(ms) - 1)))

\* the sorted list of matches (lines 155-238)
Search(entries, name, fuzzy, threshold) ==
    SortMatches(ScanEntries(entries, Lower(name), fuzzy, threshold))

\* one "MATCH #i" block of the report (lines 243-275)
ReportLine(i, match, fuzzy) ==
    [rank |-> i,
     name |-> match.name,
     uid |-> match.uid,
     shown_score |-> IF fuzzy /\ ScoreLess(match.match_score, IntScore(100))
                     THEN Some(match.match_score) ELSE None,
     matched |-> match.matched_name,
     aliases |-> match.aliases]

\* the report (lines 240-291): the text, kept as its parts
Report(matches, name, fuzzy) ==
    IF matches # << >>
    THEN [kind |-> "match", total |-> Len(matches),
          match_type |-> IF fuzzy THEN "Fuzzy" ELSE "Exact", search |-> name,
          results |-> [i \in 1..Len(FirstN(matches, TopN)) |-> ReportLine(i, matches[i], fuzzy)]]
    ELSE [kind |-> "no_match", total |-> 0,
          match_type |-> IF fuzzy THEN "fuzzy" ELSE "exact", search |-> name,
          results |-> << >>]

\* the input validation (line 136): not name or not name.strip()
InvalidName(name) == name = << >> \/ Strip(name) = << >>

\* the text returned for an invalid name (line 137)
InvalidNameResult == [kind |-> "error_text", total |-> 0, match_type |-> "none",
                      search |-> << >>, results |-> << >>]

\* the text returned by the handler of line 293
FailedResult == [kind |-> "failed_text", total |-> 0, match_type |-> "none",
                 search |-> << >>, results |-> << >>]

(***************************************************************************)
(* The parsed document and check_ofac on it (lines 145-302).               *)
(* A parsed document is [shape, entries]: shape "sdn" when sdnList is a    *)
(* dictionary (entries its sdnEntry list, empty when the root is another   *)
(* element), "null_sdn" when sdnList is present but no dictionary, so that *)
(* navigating it raises AttributeError.                                    *)
(***************************************************************************)
\* a handler that lets the exception through
RaiseCheckError == [kind |-> "raised", total |-> 0, match_type |-> "none",
                    search |-> << >>, results |-> << >>]

\* the handler of line 293: any exception becomes the failure text
OnCheckError == FailedResult

\* lines 139-302, once download_ofac_sdn_data has returned doc
CheckOnData(doc, name, fuzzy, threshold) ==
    IF doc.shape = "null_sdn" THEN OnCheckError
    ELSE Report(Search(doc.entries, Strip(name), fuzzy, threshold), Strip(name), fuzzy)

(***************************************************************************)
(* The inputs of the cache model.                                          *)
(***************************************************************************)
\* the concurrent callers of check_ofac (coroutines of one event loop)
Callers == {"c1", "c2"}

EntryA == [uid |-> 1, firstName |-> <<"a">>, lastName |-> <<"B">>, akas |-> << >>]
EntryB == [uid |-> 2, firstName |-> << >>, lastName |-> <<"b">>,
           akas |-> <<[firstName |-> <<"A">>, lastName |-> << >>]>>]

DocSdn == [shape |-> "sdn", entries |-> <<EntryA, EntryB>>]
DocOtherRoot == [shape |-> "sdn", entries |-> << >>]
DocNullSdn == [shape |-> "null_sdn", entries |-> << >>]
Malformed == [shape |-> "malformed", entries |-> << >>]

\* 'xml' in content_type.lower()
HasXml(ct) == ct \in {"application/xml"}
\* 'text' in content_type.lower()
HasText(ct) == ct \in {"TEXT/PLAIN", "text/html"}

Resp(status, ctype, size, body) ==
    [status |-> status, ctype |-> ctype, size |-> size, body |-> body]

\* the responses of the server: three that pass, and one or two for each way to fail
Responses ==
    {Resp(HttpOk, "application/xml", MinSize, DocSdn),
     Resp(HttpOk, "text/html", MinSize, DocOtherRoot),
     Resp(HttpOk, "TEXT/PLAIN", MinSize + 1, DocNullSdn),
     Resp(500, "application/xml", MinSize, DocSdn),
     Resp(HttpOk, "application/json", MinSize, DocSdn),
     Resp(HttpOk, "", MinSize, DocSdn),
     Resp(HttpOk, "application/xml", MinSize - 1, DocSdn),
     Resp(HttpOk, "application/xml", 0, Malformed),
     Resp(HttpOk, "application/xml", MinSize, Malformed)}

\* the arguments of the calls: name, fuzzy, threshold
CallArgs == {<<<< >>, TRUE, 85>>, <<<<" ">>, TRUE, 85>>,
             <<<<" ", "B", " ">>, FALSE, 85>>, <<<<"a">>, TRUE, 50>>}

(***************************************************************************)
(* State.                                                                  *)
(***************************************************************************)
VARIABLES
    ofac_data,     \* _ofac_data: None or Some(dataset instance)
    cache_time,    \* _cache_time: None or Some(seconds)
    now,           \* datetime.now(), in seconds
    pc,            \* per caller: "idle", "fetching" (awaiting client.get), "done"
    call,          \* per caller: the arguments and what the current call did
    parse_count,   \* number of dictionaries xmltodict.parse has returned so far
    ever_loaded,   \* some fetch has been parsed and cached
    cache_origin,  \* None or Some(the response the cached dataset was parsed from)
    calls_started, \* number of check_ofac calls so far
    ticks,         \* number of clock steps so far
    inp,           \* the inputs of the matching run
    out,           \* the outcome of the matching run
    again          \* the outcome of a second run at another threshold

vars == <<ofac_data, cache_time, now, pc, call, parse_count, ever_loaded, cache_origin,
          calls_started, ticks, inp, out, again>>

cacheVars == <<ofac_data, cache_time, now, pc, call, parse_count, ever_loaded, cache_origin,
               calls_started, ticks>>
searchVars == <<inp, out, again>>

NoCall == [name |-> << >>, fuzzy |-> TRUE, threshold |-> 0,
           started |-> FALSE, did_fetch |-> FALSE,
           check_data |-> None, check_time |-> None, check_now |-> 0,
           ds_outcome |-> "none", ds_ret |-> None, resp_ok |-> FALSE,
           resp_passed |-> FALSE,
           loaded_before |-> FALSE, data_before |-> None, time_before |-> None,
           data_after |-> None, time_after |-> None, end_now |-> 0,
           result |-> [kind |-> "pending", total |-> 0, match_type |-> "none",
                       search |-> << >>, results |-> << >>]]

NoAgain == [ran |-> FALSE, threshold |-> 0, matches |-> << >>]
NoInp == [entries |-> << >>, name |-> << >>, fuzzy |-> TRUE, threshold |-> 0]
NoOut == [ran |-> FALSE, matches |-> << >>,
          result |-> [kind |-> "pending", total |-> 0, match_type |-> "none",
                      search |-> << >>, results |-> << >>]]

(***************************************************************************)
(* download_ofac_sdn_data (lines 18-88).                                   *)
(***************************************************************************)
\* a freshness test that still serves the cache at exactly 24 hours
IsFreshInclusive(data, time, t) ==
    /\ data # None
    /\ time # None
    /\ t - time[1] <= TTL

\* lines 31-33: the cache is set and younger than 24 hours
IsFresh(data, time, t) ==
    /\ data # None
    /\ time # None
    /\ t - time[1] < TTL

\* what the fetcher's contract asks of a response: a success status, a content
\* type that names xml or text (in any case), at least 1000 bytes, and a payload
\* that parses; recorded with each call as resp_passed
PassesChecks(resp) ==
    /\ resp.status \in 200..299
    /\ resp.ctype \in {"application/xml", "TEXT/PLAIN", "text/html"}
    /\ resp.size >= 1000
    /\ resp.body.shape # "malformed"

\* a validation without the size check
RespOkAnySize(resp) ==
    /\ resp.status = HttpOk
    /\ (HasXml(resp.ctype) \/ HasText(resp.ctype))
    /\ resp.body # Malformed

\* lines 48-67: the response passes the three checks and parses
RespOk(resp) ==
    /\ resp.status = HttpOk
    /\ (HasXml(resp.ctype) \/ HasText(resp.ctype))
    /\ resp.size >= MinSize
    /\ resp.body # Malformed

\* a fallback that asks for a fresh cache instead of any cache
HasFallbackIfFresh(data) == IsFresh(data, cache_time, now)

\* line 84: if _ofac_data
HasFallback(data) == data # None

\* an install that stores the dataset and leaves the timestamp as it was
InstallDataOnly(data, t) == [data |-> Some(data), time |-> cache_time]

\* lines 70-71: what the two assignments leave in the cache
InstallCache(data, t) == [data |-> Some(data), time |-> Some(t)]

\* a failed attempt that restarts the clock of the dataset it falls back to
FailedCacheTouch(data, time, t) ==
    [data |-> data, time |-> IF data # None THEN Some(t) ELSE time]

\* lines 80-88: what a failed attempt leaves in the cache
FailedCache(data, time, t) == [data |-> data, time |-> time]

\* line 65: every parse returns a new dictionary, told apart from the earlier
\* ones by its id even when the body is the same
NewDataset(body) ==
    [id |-> parse_count + 1, shape |-> body.shape, entries |-> body.entries]

InitCache ==
    /\ ofac_data = None
    /\ cache_time = None
    /\ now = 0
    /\ pc = [c \in Callers |-> "idle"]
    /\ call = [c \in Callers |-> NoCall]
    /\ parse_count = 0
    /\ ever_loaded = FALSE
    /\ cache_origin = None
    /\ calls_started = 0
    /\ ticks = 0

Init == InitCache /\ inp = NoInp /\ out = NoOut /\ again = NoAgain

\* check_ofac with an invalid name: lines 136-137, no await, returns at once
CallInvalid(c, name, fuzzy, threshold) ==
    /\ pc[c] = "idle"
    /\ calls_started < MaxCalls
    /\ InvalidName(name)
    /\ call' = [call EXCEPT ![c] = [NoCall EXCEPT !.name = name, !.fuzzy = fuzzy,
                                     !.threshold = threshold, !.started = TRUE,
                                     !.result = InvalidNameResult]]
    /\ pc' = [pc EXCEPT ![c] = "done"]
    /\ calls_started' = calls_started + 1
    /\ UNCHANGED <<ofac_data, cache_time, now, parse_count, ever_loaded, cache_origin,
                   ticks, searchVars>>

\* check_ofac on the fresh path: lines 139-143, 31-35 and 145-291 run without an await
CallFresh(c, name, fuzzy, threshold) ==
    /\ pc[c] = "idle"
    /\ calls_started < MaxCalls
    /\ ~InvalidName(name)
    /\ IsFresh(ofac_data, cache_time, now)
    /\ call' = [call EXCEPT ![c] =
                  [NoCall EXCEPT !.name = name, !.fuzzy = fuzzy, !.threshold = threshold,
                                 !.started = TRUE,
                                 !.check_data = ofac_data, !.check_time = cache_time,
                                 !.check_now = now,
                                 !.ds_outcome = "fresh", !.ds_ret = ofac_data,
                                 !.loaded_before = ever_loaded,
                                 !.data_before = ofac_data, !.time_before = cache_time,
                                 !.data_after = ofac_data, !.time_after = cache_time,
                                 !.end_now = now,
                                 !.result = CheckOnData(ofac_data[1], name, fuzzy, threshold)]]
    /\ pc' = [pc EXCEPT ![c] = "done"]
    /\ calls_started' = calls_started + 1
    /\ UNCHANGED <<ofac_data, cache_time, now, parse_count, ever_loaded, cache_origin,
                   ticks, searchVars>>

\* check_ofac on the miss path: lines 139-143, 31-45, up to the await of client.get
CallFetch(c, name, fuzzy, threshold) ==
    /\ pc[c] = "idle"
    /\ calls_started < MaxCalls
    /\ ~InvalidName(name)
    /\ ~IsFresh(ofac_data, cache_time, now)
    /\ call' = [call EXCEPT ![c] =
                  [NoCall EXCEPT !.name = name, !.fuzzy = fuzzy, !.threshold = threshold,
                                 !.started = TRUE, !.did_fetch = TRUE,
                                 !.check_data = ofac_data, !.check_time = cache_time,
                                 !.check_now = now]]
    /\ pc' = [pc EXCEPT ![c] = "fetching"]
    /\ calls_started' = calls_started + 1
    /\ UNCHANGED <<ofac_data, cache_time, now, parse_count, ever_loaded, cache_origin,
                   ticks, searchVars>>

\* the response arrives and passes: lines 47-78, then lines 145-291.  When sdnList
\* is no dictionary the statistics of line 74 raise after the cache is written, and
\* the handler of line 80 returns the dataset just cached: the same outcome.
FetchOk(c, resp) ==
    /\ pc[c] = "fetching"
    /\ RespOk(resp)
    /\ LET data == NewDataset(resp.body)
           cache == InstallCache(data, now)
       IN /\ ofac_data' = cache.data
          /\ cache_time' = cache.time
          /\ call' = [call EXCEPT ![c] =
                        [@ EXCEPT !.ds_outcome = "fetched", !.ds_ret = Some(data),
                                  !.resp_ok = TRUE, !.resp_passed = PassesChecks(resp),
                                  !.loaded_before = ever_loaded,
                                  !.data_before = ofac_data, !.time_before = cache_time,
                                  !.data_after = cache.data, !.time_after = cache.time,
                                  !.end_now = now,
                                  !.result = CheckOnData(data, call[c].name, call[c].fuzzy,
                                                         call[c].threshold)]]
    /\ ever_loaded' = TRUE
    /\ cache_origin' = Some(resp)
    /\ pc' = [pc EXCEPT ![c] = "done"]
    /\ parse_count' = parse_count + 1
    /\ UNCHANGED <<now, calls_started, ticks, searchVars>>

\* the response arrives and fails a check or the parse: lines 47-67 and 80-88,
\* then lines 145-302
FetchFail(c, resp) ==
    /\ pc[c] = "fetching"
    /\ ~RespOk(resp)
    /\ LET cache == FailedCache(ofac_data, cache_time, now)
           fallback == HasFallback(ofac_data)
       IN /\ ofac_data' = cache.data
          /\ cache_time' = cache.time
          /\ call' = [call EXCEPT ![c] =
                        [@ EXCEPT !.ds_outcome = IF fallback THEN "stale" ELSE "raised",
                                  !.ds_ret = IF fallback THEN ofac_data ELSE None,
                                  !.resp_ok = FALSE, !.resp_passed = PassesChecks(resp),
                                  !.loaded_before = ever_loaded,
                                  !.data_before = ofac_data, !.time_before = cache_time,
                                  !.data_after = cache.data, !.time_after = cache.time,
                                  !.end_now = now,
                                  !.result = IF fallback
                                             THEN CheckOnData(ofac_data[1], call[c].name,
                                                              call[c].fuzzy,
                                                              call[c].threshold)
                                             ELSE OnCheckError]]
    /\ pc' = [pc EXCEPT ![c] = "done"]
    /\ UNCHANGED <<now, parse_count, ever_loaded, cache_origin, calls_started, ticks,
                   searchVars>>

\* the caller takes its result; it may call again
Return(c) ==
    /\ pc[c] = "done"
    /\ calls_started < MaxCalls
    /\ pc' = [pc EXCEPT ![c] = "idle"]
    /\ call' = [call EXCEPT ![c] = NoCall]
    /\ UNCHANGED <<ofac_data, cache_time, now, parse_count, ever_loaded, cache_origin,
                   calls_started, ticks, searchVars>>

\* the clock moves on
Tick(d) ==
    /\ ticks < MaxTicks
    /\ now' = now + d
    /\ ticks' = ticks + 1
    /\ UNCHANGED <<ofac_data, cache_time, pc, call, parse_count, ever_loaded, cache_origin,
                   calls_started, searchVars>>

TickSteps == {1, TTL - 1}

Next ==
    \/ \E c \in Callers, a \in CallArgs :
          \/ CallInvalid(c, a[1], a[2], a[3])
          \/ CallFresh(c, a[1], a[2], a[3])
          \/ CallFetch(c, a[1], a[2], a[3])
    \/ \E c \in Callers, resp \in Responses : FetchOk(c, resp) \/ FetchFail(c, resp)
    \/ \E c \in Callers : Return(c)
    \/ \E d \in TickSteps : Tick(d)

Spec == Init /\ [][Next]_vars

(***************************************************************************)
(* The matching run: check_ofac on a cached dataset (the fresh path), with *)
(* its inputs drawn from pools.  The uid of an entry is its position in    *)
(* the dataset.                                                            *)
(***************************************************************************)
Aka(first, last) == [firstName |-> first, lastName |-> last]
PoolEntry(first, last, akas) == [firstName |-> first, lastName |-> last, akas |-> akas]

EntryPool ==
    {PoolEntry(<<"a">>, <<"B">>, << >>),
     PoolEntry(<< >>, <<"b">>, <<Aka(<<"A">>, << >>)>>),
     PoolEntry(<< >>, << >>, <<Aka(<<"b">>, <<"a">>)>>),
     PoolEntry(<<"A">>, << >>, <<Aka(<< >>, << >>), Aka(<<"a">>, <<"b">>)>>),
     PoolEntry(<<"A">>, <<"a">>, << >>)}

SeqsUpTo(S, n) == UNION {[1..k -> S] : k \in 0..n}

\* two datasets with more matches than the report shows
LongDatasets ==
    LET e1 == PoolEntry(<<"a">>, <<"B">>, << >>)
        e2 == PoolEntry(<< >>, <<"b">>, <<Aka(<<"A">>, << >>)>>)
        e4 == PoolEntry(<<"A">>, << >>, <<Aka(<< >>, << >>), Aka(<<"a">>, <<"b">>)>>)
    IN {<<e1, e2, e4, e1, e2, e4, e1>>, <<e4, e4, e2, e1, e1, e2>>}

WithUids(es) == [i \in 1..Len(es) |-> [uid |-> i, firstName |-> es[i].firstName,
                                        lastName |-> es[i].lastName, akas |-> es[i].akas]]

SearchNames == {<< >>, <<" ">>, <<"a">>, <<"B", " ">>, <<"b", " ", "A">>, <<"a", "b">>}
Thresholds == {0, 50, 85, 100}

InitSearch ==
    /\ InitCache
    /\ \E es \in SeqsUpTo(EntryPool, MaxEntries) \cup LongDatasets,
          name \in SearchNames, fuzzy \in BOOLEAN, threshold \in Thresholds :
          inp = [entries |-> WithUids(es), name |-> name, fuzzy |-> fuzzy,
                 threshold |-> threshold]
    /\ out = NoOut
    /\ again = NoAgain

\* check_ofac with the dataset cached and fresh (lines 136-291)
RunCheck ==
    /\ ~out.ran
    /\ out' = IF InvalidName(inp.name)
              THEN [ran |-> TRUE, matches |-> << >>, result |-> InvalidNameResult]
              ELSE LET matches == Search(inp.entries, Strip(inp.name), inp.fuzzy,
                                         inp.threshold)
                   IN [ran |-> TRUE, matches |-> matches,
                       result |-> Report(matches, Strip(inp.name), inp.fuzzy)]
    /\ UNCHANGED <<inp, again, cacheVars>>

SearchSpec == InitSearch /\ [][RunCheck]_vars

(***************************************************************************)
(* Two fuzzy runs on the same dataset and name at two thresholds.          *)
(***************************************************************************)
MonoThresholds == {0, 1, 50, 60, 67, 80, 85, 100}

InitMono ==
    /\ InitCache
    /\ \E es \in SeqsUpTo(EntryPool, MaxEntries) \cup LongDatasets,
          name \in SearchNames, threshold \in MonoThresholds :
          inp = [entries |-> WithUids(es), name |-> name, fuzzy |-> TRUE,
                 threshold |-> threshold]
    /\ out = NoOut
    /\ again = NoAgain

\* check_ofac once more, same name and dataset, threshold t (lines 136-238)
RunAgain(t) ==
    /\ out.ran
    /\ ~again.ran
    /\ ~InvalidName(inp.name)
    /\ again' = [ran |-> TRUE, threshold |-> t,
                 matches |-> Search(inp.entries, Strip(inp.name), inp.fuzzy, t)]
    /\ UNCHANGED <<inp, out, cacheVars>>

MonoNext == RunCheck \/ \E t \in MonoThresholds : RunAgain(t)

MonoSpec == InitMono /\ [][MonoNext]_vars

(***************************************************************************)
(* Properties of the cache (specification Spec).                           *)
(***************************************************************************)
Fetching == {c \in Callers : pc[c] = "fetching"}

\* a query that is empty or only whitespace
BlankQuery(name) == \A i \in 1..Len(name) : name[i] = " "

\* C1: at most one network fetch is in flight at any time, however the callers
\* that find the cache empty or stale interleave.
C1_SingleFlight == Cardinality(Fetching) <= 1

\* C2: once a dataset has been loaded no getDataset call raises; a call raises
\* only when its own fetch or parse failed and the cache held no dataset then.
C2_RaisesOnlyOnColdStart ==
    \A c \in Callers :
        call[c].ds_outcome = "raised" =>
            /\ ~call[c].loaded_before
            /\ call[c].data_before = None
            /\ call[c].did_fetch
            /\ ~call[c].resp_ok

C2_Witness ==
    \E c \in Callers :
        /\ call[c].ds_outcome = "stale"
        /\ call[c].loaded_before
        /\ ~IsFresh(call[c].data_before, call[c].time_before, call[c].end_now)

\* C3: a refresh that fails while the cache holds a dataset returns that dataset
\* and leaves dataset and fetchedAt as they were; when no other call replaced the
\* cache meanwhile it is as at the start of the call and still stale, so the next
\* call fetches again.
C3_FailedRefreshKeepsCache ==
    \A c \in Callers :
        call[c].ds_outcome = "stale" =>
            /\ call[c].data_before # None
            /\ call[c].ds_ret = call[c].data_before
            /\ call[c].data_after = call[c].data_before
            /\ call[c].time_after = call[c].time_before
            /\ (call[c].data_before = call[c].check_data /\ call[c].time_before = call[c].check_time)
                  => ~IsFresh(call[c].data_after, call[c].time_after, call[c].end_now)

C3_Witness ==
    \E c \in Callers :
        /\ call[c].ds_outcome = "stale"
        /\ call[c].check_data # None
        /\ call[c].data_before = call[c].check_data
        /\ ofac_data = call[c].check_data
        /\ cache_time = call[c].check_time

\* C4: a call fetches exactly when the cache it checks is empty or at least 24
\* hours old; otherwise it returns the cached instance and leaves the cache alone.
C4_FetchIffEmptyOrStale ==
    \A c \in Callers :
        (call[c].started /\ ~BlankQuery(call[c].name)) =>
            /\ call[c].did_fetch <=>
                  (\/ call[c].check_data = None
                   \/ call[c].check_time = None
                   \/ call[c].check_now - call[c].check_time[1] >= TTL)
            /\ ~call[c].did_fetch =>
                  /\ call[c].ds_outcome = "fresh"
                  /\ call[c].ds_ret = call[c].check_data
                  /\ call[c].data_after = call[c].check_data
                  /\ call[c].time_after = call[c].check_time

C4_Witness ==
    \E c, d \in Callers :
        /\ c # d
        /\ call[c].ds_outcome = "fresh"
        /\ call[c].check_now - call[c].check_time[1] = TTL - 1
        /\ call[d].ds_outcome = "fresh"
        /\ call[d].ds_ret = call[c].ds_ret

\* C5: dataset and fetchedAt are both empty or both set in every state, a
\* successful refresh replaces both together, and a returned dataset is a parsed one.
C5_CacheFieldsTogether ==
    /\ (ofac_data = None) <=> (cache_time = None)
    /\ \A c \in Callers :
          /\ call[c].ds_outcome = "fetched" =>
                /\ call[c].ds_ret # None
                /\ call[c].data_after = call[c].ds_ret
                /\ call[c].time_after = Some(call[c].end_now)
          /\ (call[c].data_after = None) <=> (call[c].time_after = None)
          /\ call[c].ds_ret # None => call[c].ds_ret[1].shape \in {"sdn", "null_sdn"}

C5_Witness ==
    \E c, d \in Callers :
        /\ c # d
        /\ call[c].ds_outcome = "fetched"
        /\ call[c].data_before # None
        /\ call[c].time_before # call[c].time_after
        /\ pc[d] = "fetching"

\* C6: check_ofac with a non-empty name never raises for want of data: when
\* getDataset raises it returns the failure text.
C6_NoRaiseOnUnavailable ==
    \A c \in Callers :
        (pc[c] = "done" /\ ~BlankQuery(call[c].name)) =>
            /\ call[c].result.kind \in {"match", "no_match", "failed_text"}
            /\ call[c].ds_outcome = "raised" => call[c].result.kind = "failed_text"

C6_Witness ==
    \E c \in Callers :
        /\ pc[c] = "done"
        /\ ~BlankQuery(call[c].name)
        /\ call[c].ds_outcome = "raised"
        /\ call[c].result.kind = "failed_text"

\* C7: an empty or whitespace-only query is signalled to the immediate caller as
\* a hard failure (raised), not returned as a text, and it is rejected before any
\* cache read or network fetch.
C7_BlankQueryRaises ==
    \A c \in Callers :
        (call[c].started /\ BlankQuery(call[c].name)) =>
            /\ pc[c] = "done"
            /\ call[c].result.kind = "raised"
            /\ ~call[c].did_fetch
            /\ call[c].ds_outcome = "none"
            /\ call[c].check_data = None

\* the case of C7: the empty query and the whitespace-only query have both been
\* answered, each with the error text of line 137, while the cache holds a dataset
C7_Witness ==
    \E c, d \in Callers :
        /\ c # d
        /\ pc[c] = "done"
        /\ call[c].name = << >>
        /\ call[c].result.kind = "error_text"
        /\ pc[d] = "done"
        /\ call[d].name = <<" ">>
        /\ call[d].result.kind = "error_text"
        /\ ~call[c].did_fetch
        /\ ~call[d].did_fetch
        /\ ofac_data # None

(***************************************************************************)
(* Properties of the matching (specification SearchSpec).                  *)
(***************************************************************************)
\* the candidate names of an entry: the primary name, then every alias
SpecNames(entry) ==
    <<FullNameOf(entry.firstName, entry.lastName)>> \o
    [k \in 1..Len(entry.akas) |-> FullNameOf(entry.akas[k].firstName, entry.akas[k].lastName)]

\* the query as the search sees it
Query == Strip(inp.name)

\* the positions in the result of the candidates of the entry with this uid
MatchesOf(uid) == {k \in 1..Len(out.matches) : out.matches[k].uid = uid}

\* the name a candidate records as matched
RecordedName(m) == IF m.matched_name = None THEN m.name ELSE m.matched_name[1]

ExactHitAt(entry, k) == Contains(Lower(Query), Lower(SpecNames(entry)[k]))
ExactHit(entry) == \E k \in 1..Len(SpecNames(entry)) : ExactHitAt(entry, k)
FirstExactName(entry) ==
    SpecNames(entry)[CHOOSE k \in 1..Len(SpecNames(entry)) :
                        ExactHitAt(entry, k) /\ \A j \in 1..(k - 1) : ~ExactHitAt(entry, j)]

\* C8: in exact mode an entry is returned exactly when the lower-cased query is a
\* substring of its lower-cased primary name or of an alias; the score is 100 and
\* the matched name is the first such name, primary name first.
C8_ExactSubstring ==
    (out.ran /\ ~inp.fuzzy /\ ~BlankQuery(inp.name)) =>
        \A i \in 1..Len(inp.entries) :
            /\ (MatchesOf(i) # {}) <=> ExactHit(inp.entries[i])
            /\ Cardinality(MatchesOf(i)) <= 1
            /\ \A k \in MatchesOf(i) :
                  /\ out.matches[k].match_score = IntScore(100)
                  /\ RecordedName(out.matches[k]) = FirstExactName(inp.entries[i])

C8_Witness ==
    /\ out.ran /\ ~inp.fuzzy /\ ~BlankQuery(inp.name)
    /\ Lower(inp.name) # inp.name
    /\ \E i \in 1..Len(inp.entries) : MatchesOf(i) = {}
    /\ \E k \in 1..Len(out.matches) : out.matches[k].matched_name # None
    /\ \E k \in 1..Len(out.matches) :
          out.matches[k].matched_name = None /\ Lower(out.matches[k].name) # out.matches[k].name

FuzzyScoreAt(entry, k) == NameScore(Lower(Query), SpecNames(entry)[k])
FuzzyQualifies(entry) ==
    \E k \in 1..Len(SpecNames(entry)) :
        ScoreGeq(FuzzyScoreAt(entry, k), IntScore(inp.threshold))
FuzzyBest(entry) ==
    FuzzyScoreAt(entry, CHOOSE k \in 1..Len(SpecNames(entry)) :
                           \A j \in 1..Len(SpecNames(entry)) :
                               ScoreGeq(FuzzyScoreAt(entry, k), FuzzyScoreAt(entry, j)))

\* C9: in fuzzy mode, for every threshold in 0..100, the result holds exactly one
\* candidate for each entry with a name scoring at least the threshold and none
\* for any other entry; its score is the entry's highest and at least the threshold.
C9_FuzzyQualifying ==
    (out.ran /\ inp.fuzzy /\ ~BlankQuery(inp.name)) =>
        \A i \in 1..Len(inp.entries) :
            /\ FuzzyQualifies(inp.entries[i]) => Cardinality(MatchesOf(i)) = 1
            /\ ~FuzzyQualifies(inp.entries[i]) => MatchesOf(i) = {}
            /\ \A k \in MatchesOf(i) :
                  /\ out.matches[k].match_score = FuzzyBest(inp.entries[i])
                  /\ ScoreGeq(out.matches[k].match_score, IntScore(inp.threshold))

\* C10: the candidates are in descending order of score, candidates of equal score
\* in the order of their entries in the dataset, and the report ranks the first
\* five in that order.
C10_SortedStable ==
    (out.ran /\ ~BlankQuery(inp.name)) =>
        /\ \A i, j \in 1..Len(out.matches) :
              i < j =>
                 /\ ~ScoreLess(out.matches[i].match_score, out.matches[j].match_score)
                 /\ out.matches[i].match_score = out.matches[j].match_score
                       => out.matches[i].uid < out.matches[j].uid
        /\ Len(out.result.results) = (IF Len(out.matches) < TopN THEN Len(out.matches) ELSE TopN)
        /\ out.result.total = Len(out.matches)
        /\ \A r \in 1..Len(out.result.results) :
              /\ out.result.results[r].rank = r
              /\ out.result.results[r].uid = out.matches[r].uid

C10_Witness ==
    /\ out.ran
    /\ Len(out.matches) > TopN
    /\ Len(out.result.results) = TopN
    /\ \E i, j \in 1..Len(out.matches) :
          i < j /\ out.matches[i].match_score = out.matches[j].match_score
    /\ \E i, j \in 1..Len(out.matches) :
          i < j /\ out.matches[i].uid > out.matches[j].uid
    /\ \E i \in 1..TopN : out.matches[i].uid > TopN

(***************************************************************************)
(* Properties of two runs at two thresholds (specification MonoSpec).      *)
(***************************************************************************)
UidsOf(ms) == {ms[k].uid : k \in 1..Len(ms)}

\* C11: in fuzzy mode, for a fixed dataset and query, the entries returned at a
\* higher threshold are among those returned at a lower one, and are no more.
C11_ThresholdMonotone ==
    (out.ran /\ again.ran /\ inp.fuzzy) =>
        LET lo == IF inp.threshold <= again.threshold THEN out.matches ELSE again.matches
            hi == IF inp.threshold <= again.threshold THEN again.matches ELSE out.matches
        IN /\ UidsOf(hi) \subseteq UidsOf(lo)
           /\ Len(hi) <= Len(lo)

C11_Witness ==
    /\ out.ran /\ again.ran /\ inp.fuzzy
    /\ inp.threshold < again.threshold
    /\ UidsOf(again.matches) # {}
    /\ UidsOf(again.matches) # UidsOf(out.matches)
    /\ Len(out.matches) < Len(inp.entries)

(***************************************************************************)
(* Properties of what reaches the cache (specification Spec).              *)
(***************************************************************************)
\* C12: the cache only ever holds a dataset parsed from a response that passed
\* the three transport checks; a response that fails one of them, or does not
\* parse, is a failed fetch: it is neither installed nor returned.
C12_OnlyValidatedCached ==
    /\ ofac_data # None =>
          /\ cache_origin # None
          /\ PassesChecks(cache_origin[1])
          /\ ofac_data[1].shape = cache_origin[1].body.shape
          /\ ofac_data[1].entries = cache_origin[1].body.entries
    /\ \A c \in Callers :
          /\ (call[c].ds_outcome \in {"fetched", "stale", "raised"} /\ ~call[c].resp_passed) =>
                /\ call[c].ds_outcome \in {"stale", "raised"}
                /\ call[c].data_after = call[c].data_before
                /\ call[c].time_after = call[c].time_before
                /\ call[c].ds_ret = call[c].data_before
          /\ call[c].ds_outcome = "fetched" =>
                /\ call[c].resp_passed
                /\ call[c].data_after = call[c].ds_ret
          /\ call[c].ds_ret # None =>
                call[c].ds_ret[1].shape \in {"sdn", "null_sdn"}

C12_Witness ==
    \E c, d \in Callers :
        /\ call[c].ds_outcome = "stale"
        /\ ~call[c].resp_passed
        /\ ofac_data # None
        /\ PassesChecks(cache_origin[1])
        /\ call[d].ds_outcome = "raised"
        /\ ~call[d].resp_passed

=============================================================================
